---- MODULE Spec2Model ----
(***************************************************************************)
(* Model of hierarc.Likelihood.hierarchy_likelihood.LensLikelihood:        *)
(* construction, check_dist, draw_lens, hyper_param_likelihood (sharp and  *)
(* Monte Carlo path), angular_diameter_distances and lens_log_likelihood.  *)
(*                                                                         *)
(* Floating-point values are records.  A value of the log domain (a        *)
(* log-likelihood) is -inf, +inf, NaN or log(p/q) with p/q a reduced       *)
(* fraction; a value of the linear domain (an exponentiated likelihood,    *)
(* the running sum) is +inf, NaN or a whole number u of units no larger    *)
(* than MaxFinite.  exp rounds down to whole units (so it underflows to 0  *)
(* and loses the fraction) and overflows to +inf above MaxFinite.          *)
(***************************************************************************)
EXTENDS Integers, Sequences, FiniteSets

\* ------------------------------------------------------------------ bounds
MaxDraws == 2        \* largest num_distribution_draws
MaxSigma == 1        \* spreads range over 0..MaxSigma
MaxZ == 1            \* standard normal variates range over -MaxZ..MaxZ
MaxFinite == 2       \* largest finite value of the linear domain
MaxDist == 2         \* cosmological distances range over 1..MaxDist

\* ------------------------------------------------------------ float values
RECURSIVE GCD(_, _)
GCD(a, b) == IF b = 0 THEN a ELSE GCD(b, a % b)

NegInf == [kind |-> "ninf", p |-> 0, q |-> 0]
PosInf == [kind |-> "pinf", p |-> 0, q |-> 0]
NaN == [kind |-> "nan", p |-> 0, q |-> 0]
Unset == [kind |-> "unset", p |-> 0, q |-> 0]
Raised == [kind |-> "raised", p |-> 0, q |-> 0]

\* the reduced fraction p/q, q > 0, p >= 0
Frac(p, q) == [kind |-> "fin", p |-> p \div GCD(p, q), q |-> q \div GCD(p, q)]

\* a whole number of units of the linear domain
Lin(u) == Frac(u, 1)

IsFinite(x) == x.kind = "fin"

\* x > 0 as numpy compares: NaN compares False, +inf compares True
GreaterZero(x) == \/ x.kind = "pinf"
                  \/ x.kind = "fin" /\ x.p > 0

\* x <= 0 as numpy compares
LeqZero(x) == \/ x.kind = "ninf"
              \/ x.kind = "fin" /\ x.p = 0

\* float addition of two non-negative values of the linear domain
FAdd(x, y) ==
    IF x.kind = "nan" \/ y.kind = "nan" THEN NaN
    ELSE IF x.kind = "pinf" \/ y.kind = "pinf" THEN PosInf
    ELSE IF x.p + y.p > MaxFinite THEN PosInf
    ELSE Lin(x.p + y.p)

\* np.exp of a log-domain value
NpExp(logl) ==
    CASE logl.kind = "nan" -> NaN
      [] logl.kind = "ninf" -> Lin(0)
      [] logl.kind = "pinf" -> PosInf
      [] OTHER -> IF logl.p \div logl.q > MaxFinite THEN PosInf
                  ELSE Lin(logl.p \div logl.q)

\* np.log(x / n) of a linear-domain value x >= 0 and a count n >= 1
NpLogDiv(x, n) ==
    CASE x.kind = "nan" -> NaN
      [] x.kind = "pinf" -> PosInf
      [] OTHER -> IF x.p = 0 THEN NegInf ELSE Frac(x.p, x.q * n)

\* ------------------------------------------------------------ dictionaries
\* a dict is a function from a set of keys; None is NoneType
NoneType == [k \in {"NoneType"} |-> 0]
EmptyDict == [k \in {} |-> 0]
IsNone(d) == d = NoneType

\* d.get(key, default)
Get(d, key, default) == IF key \in DOMAIN d THEN d[key] ELSE default

\* the dict d after d.pop(key, None)
Popped(d, key) == [k \in (DOMAIN d) \ {key} |-> d[k]]

\* the value d.pop(key, None) returns: <<>> is None, <<v>> is v
PopValue(d, key) == IF key \in DOMAIN d THEN <<d[key]>> ELSE <<>>

\* every dict over a subset of keys, vals[k] the values key k may hold
Dicts(keys, vals) ==
    UNION {[ks -> UNION {vals[k] : k \in ks}] : ks \in SUBSET keys}

SigmaVals == 0..MaxSigma

\* the value a key holds when present: spreads range, means differ from
\* the default of draw_lens
LensVals ==
    [k \in {"lambda_mst", "lambda_mst_sigma", "kappa_ext", "kappa_ext_sigma",
            "gamma_ppn", "lambda_ifu", "lambda_ifu_sigma"} |->
        CASE k = "lambda_mst" -> {2}
          [] k = "kappa_ext" -> {1}
          [] k = "gamma_ppn" -> {2}
          [] k = "lambda_ifu" -> {3}
          [] OTHER -> SigmaVals]

KinVals ==
    [k \in {"a_ani", "a_ani_sigma", "beta_inf", "beta_inf_sigma",
            "sigma_v_sys_error"} |->
        CASE k = "a_ani" -> {1}
          [] k = "beta_inf" -> {1}
          [] k = "sigma_v_sys_error" -> {1}
          [] OTHER -> SigmaVals]

\* every dict over a subset of keys with key k holding a value of vals[k]
TypedDicts(keys, vals) ==
    {d \in Dicts(keys, vals) : \A k \in DOMAIN d : d[k] \in vals[k]}


\* --------------------------------------------------------- random sources
\* a standard normal variate
Z == -MaxZ..MaxZ

\* values the external convergence sampler (PDFSampling.draw_one) returns
KappaPdfSupport == {4, 5}

\* np.random.normal(mean, sigma) for the variate z: a spread of exactly zero
\* returns the mean
Normal(mean, sigma, z) == mean + sigma * z

\* results of the external likelihood kernel (LensLikelihoodBase.log_likelihood):
\* the non-finite ones and log(p/q) from below the underflow of exp (1/2) to
\* above its overflow (MaxFinite + 1)
KernelValues ==
    {NegInf, PosInf, NaN} \cup
    {Frac(p, q) : p \in 1..(MaxFinite + 1), q \in {1, 2}}

\* ------------------------------------------------------------ the instance
\* LensLikelihood.__init__: the fields this class sets
\* (kappa_pdf, kappa_bin_edges: whether the argument is given, not None)
LensLikelihoodInit(z, draws, bias, kappa_pdf, kappa_bin_edges, ifu) ==
    [z_lens |-> z,
     num_distribution_draws |-> draws,
     kappa_ext_bias |-> bias,
     mst_ifu |-> ifu,
     draw_kappa |-> IF kappa_pdf /\ kappa_bin_edges THEN TRUE ELSE FALSE]

\* the instances constructed with a lens redshift of zs, a draw count of ns
Instances(zs, ns) ==
    {LensLikelihoodInit(z, n, b, pdf, edges, ifu) :
        z \in zs, n \in ns, b \in BOOLEAN, pdf \in BOOLEAN,
        edges \in BOOLEAN, ifu \in BOOLEAN}

\* the distances a caller of hyper_param_likelihood precomputed
PrecomputedDistances == {[ddt |-> Frac(3, 1), dd |-> Lin(1)]}

\* check_dist without the test of beta_inf_sigma
check_dist_no_beta(slf, kw_lens, kw_kin) ==
    LET lambda_mst_sigma == Get(kw_lens, "lambda_mst_sigma", 0)
        kappa_ext_sigma == Get(kw_lens, "kappa_ext_sigma", 0)
        a_ani_sigma == Get(kw_kin, "a_ani_sigma", 0)
    IN  IF a_ani_sigma = 0 /\ lambda_mst_sigma = 0 /\ kappa_ext_sigma = 0
        THEN (IF slf.draw_kappa = FALSE THEN TRUE ELSE FALSE)
        ELSE FALSE

\* LensLikelihood.check_dist
check_dist(slf, kw_lens, kw_kin) ==
    LET lambda_mst_sigma == Get(kw_lens, "lambda_mst_sigma", 0)
        kappa_ext_sigma == Get(kw_lens, "kappa_ext_sigma", 0)
        a_ani_sigma == Get(kw_kin, "a_ani_sigma", 0)
        beta_inf_sigma == Get(kw_kin, "beta_inf_sigma", 0)
    IN  IF a_ani_sigma = 0 /\ lambda_mst_sigma = 0 /\ kappa_ext_sigma = 0
           /\ beta_inf_sigma = 0
        THEN (IF slf.draw_kappa = FALSE THEN TRUE ELSE FALSE)
        ELSE FALSE

\* draw_lens testing kappa_ext_bias before the convergence PDF
draw_lens_bias_first(slf, kw_lens, zl, zk, ks) ==
    LET lambda_mst == Get(kw_lens, "lambda_mst", 1)
        lambda_mst_sigma == Get(kw_lens, "lambda_mst_sigma", 0)
        kappa_ext == Get(kw_lens, "kappa_ext", 0)
        kappa_ext_sigma == Get(kw_lens, "kappa_ext_sigma", 0)
        gamma_ppn_ == Get(kw_lens, "gamma_ppn", 1)
        lambda_ifu == Get(kw_lens, "lambda_ifu", 1)
        lambda_ifu_sigma == Get(kw_lens, "lambda_ifu_sigma", 0)
    IN  [lambda_mst_draw |->
            IF slf.mst_ifu = TRUE
            THEN Normal(lambda_ifu, lambda_ifu_sigma, zl)
            ELSE Normal(lambda_mst, lambda_mst_sigma, zl),
         kappa_ext_draw |->
            IF slf.kappa_ext_bias = TRUE
            THEN Normal(kappa_ext, kappa_ext_sigma, zk)
            ELSE IF slf.draw_kappa = TRUE THEN ks ELSE 0,
         gamma_ppn |-> gamma_ppn_]

\* draw_lens taking the IFU mean but the spread of lambda_mst
draw_lens_mst_spread(slf, kw_lens, zl, zk, ks) ==
    LET lambda_mst == Get(kw_lens, "lambda_mst", 1)
        lambda_mst_sigma == Get(kw_lens, "lambda_mst_sigma", 0)
        kappa_ext == Get(kw_lens, "kappa_ext", 0)
        kappa_ext_sigma == Get(kw_lens, "kappa_ext_sigma", 0)
        gamma_ppn_ == Get(kw_lens, "gamma_ppn", 1)
        lambda_ifu == Get(kw_lens, "lambda_ifu", 1)
    IN  [lambda_mst_draw |->
            IF slf.mst_ifu = TRUE
            THEN Normal(lambda_ifu, lambda_mst_sigma, zl)
            ELSE Normal(lambda_mst, lambda_mst_sigma, zl),
         kappa_ext_draw |->
            IF slf.draw_kappa = TRUE THEN ks
            ELSE IF slf.kappa_ext_bias = TRUE
                 THEN Normal(kappa_ext, kappa_ext_sigma, zk)
                 ELSE 0,
         gamma_ppn |-> gamma_ppn_]

\* LensLikelihood.draw_lens(**kw_lens) with the variates zl, zk of the two
\* normal draws and the sample ks of the convergence sampler
draw_lens(slf, kw_lens, zl, zk, ks) ==
    LET lambda_mst == Get(kw_lens, "lambda_mst", 1)
        lambda_mst_sigma == Get(kw_lens, "lambda_mst_sigma", 0)
        kappa_ext == Get(kw_lens, "kappa_ext", 0)
        kappa_ext_sigma == Get(kw_lens, "kappa_ext_sigma", 0)
        gamma_ppn_ == Get(kw_lens, "gamma_ppn", 1)
        lambda_ifu == Get(kw_lens, "lambda_ifu", 1)
        lambda_ifu_sigma == Get(kw_lens, "lambda_ifu_sigma", 0)
    IN  [lambda_mst_draw |->
            IF slf.mst_ifu = TRUE
            THEN Normal(lambda_ifu, lambda_ifu_sigma, zl)
            ELSE Normal(lambda_mst, lambda_mst_sigma, zl),
         kappa_ext_draw |->
            IF slf.draw_kappa = TRUE THEN ks
            ELSE IF slf.kappa_ext_bias = TRUE
                 THEN Normal(kappa_ext, kappa_ext_sigma, zk)
                 ELSE 0,
         gamma_ppn |-> gamma_ppn_]

\* what draw_lens(**kw_lens) may return
Draws(slf, kw_lens) ==
    {draw_lens(slf, kw_lens, zl, zk, ks) :
        zl \in Z, zk \in Z, ks \in KappaPdfSupport}

\* the update of the running sum without the np.isfinite test
Accumulate_no_isfinite(likelihood_, logl) ==
    LET exp_logl == NpExp(logl)
    IN  IF GreaterZero(exp_logl)
        THEN FAdd(likelihood_, exp_logl)
        ELSE likelihood_

\* the update of the running sum by one draw (lines 98-100)
Accumulate(likelihood_, logl) ==
    LET exp_logl == NpExp(logl)
    IN  IF IsFinite(exp_logl) /\ GreaterZero(exp_logl)
        THEN FAdd(likelihood_, exp_logl)
        ELSE likelihood_

\* the return of the Monte Carlo path without the guard, the logarithm taken
\* by math.log, which raises on 0
MCReturn_math_log(likelihood_, n) ==
    IF LeqZero(likelihood_) THEN Raised ELSE NpLogDiv(likelihood_, n)

\* what the Monte Carlo path returns after the loop (lines 101-103)
MCReturn(likelihood_, n) ==
    IF LeqZero(likelihood_) THEN NegInf ELSE NpLogDiv(likelihood_, n)

\* the sharp path returning np.nan_to_num(lnlog)
SharpReturn_nan_to_num(lnlog) ==
    IF lnlog.kind = "nan" THEN Frac(1, 1) ELSE lnlog

\* what the sharp path returns (lines 86-87)
SharpReturn(lnlog) == lnlog

\* a cosmology: the three distances it reports and whether their .value is a
\* numpy scalar (astropy) or a plain Python float
Cosmologies ==
    [dd : {Lin(1)},
     ds : {Lin(d) : d \in 1..MaxDist},
     dds : {Lin(d) : d \in 0..MaxDist} \cup {NaN, PosInf},
     numpy : BOOLEAN]

NoCosmo == [dd |-> Unset, ds |-> Unset, dds |-> Unset, numpy |-> FALSE]

\* LensLikelihood.angular_diameter_distances: dividing by a zero dds raises
\* ZeroDivisionError on Python floats and gives inf on numpy scalars
angular_diameter_distances(slf, cosmo_) ==
    LET dd_ == cosmo_.dd
        ds_ == cosmo_.ds
        dds_ == cosmo_.dds
        num == (1 + slf.z_lens) * dd_.p * ds_.p
    IN  CASE dds_.kind = "nan" -> [raised |-> FALSE, ddt |-> NaN, dd |-> dd_]
          [] dds_.kind = "pinf" ->
                [raised |-> FALSE, ddt |-> Lin(0), dd |-> dd_]
          [] dds_.kind = "fin" /\ dds_.p = 0 ->
                IF cosmo_.numpy
                THEN [raised |-> FALSE, ddt |-> PosInf, dd |-> dd_]
                ELSE [raised |-> TRUE, ddt |-> Unset, dd |-> Unset]
          [] OTHER ->
                [raised |-> FALSE, ddt |-> Frac(num, dds_.p), dd |-> dd_]

\* ------------------------------------------------------------------- state
VARIABLES
    self,               \* the LensLikelihood instance
    kwargs_lens,        \* the caller's lens hyperparameter dict, or None
    kwargs_kin,         \* the caller's kinematic hyperparameter dict, or None
    pc,                 \* position: idle, checked, drawn, sharp, mc, done, raised
    entry,              \* the method the caller invoked
    cosmo,              \* the cosmology given to lens_log_likelihood
    ddt, dd,            \* the distances given to hyper_param_likelihood
    sigma_v_sys_error,  \* the local of hyper_param_likelihood
    is_sharp,           \* what check_dist returned: <<>> before the call
    lambda_mst_draw, kappa_ext_draw, gamma_ppn,   \* what draw_lens returned
    rnd,                \* the variates a direct draw_lens call consumed
    likelihood, i,      \* the running sum and loop counter
    hist,               \* how often the kernel returned each value in this call
    kernel_override,    \* sigma_v_sys_error of the latest kernel call
    result,             \* the returned log-likelihood
    error               \* the exception raised

vars == <<self, kwargs_lens, kwargs_kin, pc, entry, cosmo, ddt, dd,
          sigma_v_sys_error, is_sharp, lambda_mst_draw, kappa_ext_draw,
          gamma_ppn, rnd, likelihood, i, hist, kernel_override, result,
          error>>

NoHist == [v \in KernelValues |-> 0]

\* the state of a caller holding an instance and two argument dicts,
\* before any call
InitWith(instances, lens_dicts, kin_dicts) ==
    /\ self \in instances
    /\ kwargs_lens \in lens_dicts
    /\ kwargs_kin \in kin_dicts
    /\ pc = "idle"
    /\ entry = "none"
    /\ cosmo = NoCosmo
    /\ ddt = Unset /\ dd = Unset
    /\ sigma_v_sys_error = <<>>
    /\ is_sharp = <<>>
    /\ lambda_mst_draw = 0 /\ kappa_ext_draw = 0 /\ gamma_ppn = 0
    /\ rnd = <<>>
    /\ likelihood = Unset /\ i = 0
    /\ hist = NoHist
    /\ kernel_override = <<>>
    /\ result = Unset
    /\ error = "none"


\* ----------------------------------------------------------------- actions
\* a direct call of check_dist with the caller's two dicts
CheckDistCall ==
    /\ pc = "idle"
    /\ pc' = "checked"
    /\ entry' = "check_dist"
    /\ is_sharp' = <<check_dist(self, kwargs_lens, kwargs_kin)>>
    /\ UNCHANGED <<self, kwargs_lens, kwargs_kin, cosmo, ddt, dd,
                   sigma_v_sys_error, lambda_mst_draw, kappa_ext_draw,
                   gamma_ppn, rnd, likelihood, i, hist, kernel_override,
                   result, error>>

\* a direct call of draw_lens(**kwargs_lens)
DrawLensCall ==
    /\ pc = "idle"
    /\ \E zl \in Z, zk \in Z, ks \in KappaPdfSupport :
        LET draw == draw_lens(self, kwargs_lens, zl, zk, ks)
        IN  /\ rnd' = <<zl, zk, ks>>
            /\ lambda_mst_draw' = draw.lambda_mst_draw
            /\ kappa_ext_draw' = draw.kappa_ext_draw
            /\ gamma_ppn' = draw.gamma_ppn
    /\ pc' = "drawn"
    /\ entry' = "draw_lens"
    /\ UNCHANGED <<self, kwargs_lens, kwargs_kin, cosmo, ddt, dd,
                   sigma_v_sys_error, is_sharp, likelihood, i, hist,
                   kernel_override, result, error>>

\* hyper_param_likelihood up to the choice of the path (lines 78-80, 89):
\* None has neither pop nor get, so either raises AttributeError
HyperParamEnter(ddt_, dd_) ==
    /\ ddt' = ddt_
    /\ dd' = dd_
    /\ IF IsNone(kwargs_kin)
       THEN /\ pc' = "raised"
            /\ error' = "AttributeError"
            /\ UNCHANGED <<kwargs_kin, sigma_v_sys_error, is_sharp,
                           likelihood>>
       ELSE /\ sigma_v_sys_error' = PopValue(kwargs_kin, "sigma_v_sys_error")
            /\ kwargs_kin' = Popped(kwargs_kin, "sigma_v_sys_error")
            /\ IF IsNone(kwargs_lens)
               THEN /\ pc' = "raised"
                    /\ error' = "AttributeError"
                    /\ UNCHANGED <<is_sharp, likelihood>>
               ELSE /\ is_sharp' =
                          <<check_dist(self, kwargs_lens, kwargs_kin')>>
                    /\ pc' = IF is_sharp'[1] THEN "sharp" ELSE "mc"
                    /\ likelihood' = IF is_sharp'[1] THEN Unset ELSE Lin(0)
                    /\ error' = "none"
    /\ UNCHANGED <<self, kwargs_lens, lambda_mst_draw, kappa_ext_draw,
                   gamma_ppn, rnd, i, hist, kernel_override, result>>

\* a direct call of hyper_param_likelihood with precomputed distances
HyperParamLikelihood ==
    /\ pc = "idle"
    /\ entry' = "hyper_param_likelihood"
    /\ UNCHANGED cosmo
    /\ \E d \in PrecomputedDistances : HyperParamEnter(d.ddt, d.dd)

\* lens_log_likelihood: the distances, then hyper_param_likelihood
LensLogLikelihood ==
    /\ pc = "idle"
    /\ entry' = "lens_log_likelihood"
    /\ \E c \in Cosmologies :
        LET dist == angular_diameter_distances(self, c)
        IN  /\ cosmo' = c
            /\ IF dist.raised
               THEN /\ pc' = "raised"
                    /\ error' = "ZeroDivisionError"
                    /\ UNCHANGED <<self, kwargs_lens, kwargs_kin, ddt, dd,
                                   sigma_v_sys_error, is_sharp,
                                   lambda_mst_draw, kappa_ext_draw, gamma_ppn,
                                   rnd, likelihood, i, hist, kernel_override,
                                   result>>
               ELSE HyperParamEnter(dist.ddt, dist.dd)

\* the sharp path (lines 81-87): one draw, one kernel call, its result
SharpPath ==
    /\ pc = "sharp"
    /\ \E draw \in Draws(self, kwargs_lens), lnlog \in KernelValues :
        /\ lambda_mst_draw' = draw.lambda_mst_draw
        /\ kappa_ext_draw' = draw.kappa_ext_draw
        /\ gamma_ppn' = draw.gamma_ppn
        /\ hist' = [hist EXCEPT ![lnlog] = @ + 1]
        /\ result' = SharpReturn(lnlog)
    /\ kernel_override' = <<sigma_v_sys_error>>
    /\ pc' = "done"
    /\ UNCHANGED <<self, kwargs_lens, kwargs_kin, entry, cosmo, ddt, dd,
                   sigma_v_sys_error, is_sharp, rnd, likelihood, i, error>>

\* one iteration of the Monte Carlo loop (lines 90-100)
MonteCarloDraw ==
    /\ pc = "mc"
    /\ i < self.num_distribution_draws
    /\ \E draw \in Draws(self, kwargs_lens), logl \in KernelValues :
        /\ lambda_mst_draw' = draw.lambda_mst_draw
        /\ kappa_ext_draw' = draw.kappa_ext_draw
        /\ gamma_ppn' = draw.gamma_ppn
        /\ hist' = [hist EXCEPT ![logl] = @ + 1]
        /\ likelihood' = Accumulate(likelihood, logl)
    /\ kernel_override' = <<sigma_v_sys_error>>
    /\ i' = i + 1
    /\ UNCHANGED <<self, kwargs_lens, kwargs_kin, pc, entry, cosmo, ddt, dd,
                   sigma_v_sys_error, is_sharp, rnd, result, error>>

\* the end of the Monte Carlo loop (lines 101-103)
MonteCarloReturn ==
    /\ pc = "mc"
    /\ i = self.num_distribution_draws
    /\ result' = MCReturn(likelihood, self.num_distribution_draws)
    /\ pc' = "done"
    /\ UNCHANGED <<self, kwargs_lens, kwargs_kin, entry, cosmo, ddt, dd,
                   sigma_v_sys_error, is_sharp, lambda_mst_draw,
                   kappa_ext_draw, gamma_ppn, rnd, likelihood, i, hist,
                   kernel_override, error>>

\* the caller takes the result or the exception; the locals of the call are
\* gone, the instance and the caller's dicts stay
Return ==
    /\ pc \in {"done", "raised", "checked", "drawn"}
    /\ pc' = "idle"
    /\ entry' = "none"
    /\ cosmo' = NoCosmo
    /\ ddt' = Unset /\ dd' = Unset
    /\ sigma_v_sys_error' = <<>>
    /\ is_sharp' = <<>>
    /\ lambda_mst_draw' = 0 /\ kappa_ext_draw' = 0 /\ gamma_ppn' = 0
    /\ rnd' = <<>>
    /\ likelihood' = Unset /\ i' = 0
    /\ hist' = NoHist
    /\ result' = Unset
    /\ error' = "none"
    /\ UNCHANGED <<self, kwargs_lens, kwargs_kin, kernel_override>>

\* ---------------------------------------------------------- specifications
LensKeysAll == DOMAIN LensVals
KinKeysAll == DOMAIN KinVals

\* check_dist on every pair of dicts
InitCheck ==
    InitWith(Instances({0}, {1}),
             TypedDicts(LensKeysAll \ {"gamma_ppn", "lambda_ifu", "kappa_ext"},
                        LensVals),
             TypedDicts(KinKeysAll \ {"beta_inf"}, KinVals))

NextCheck == CheckDistCall \/ Return

SpecCheck == InitCheck /\ [][NextCheck]_vars

\* draw_lens on every lens dict
InitDraw ==
    InitWith(Instances({0}, {1}), TypedDicts(LensKeysAll, LensVals),
             {EmptyDict})

NextDraw == DrawLensCall \/ Return

SpecDraw == InitDraw /\ [][NextDraw]_vars

\* hyper_param_likelihood on precomputed distances
Init ==
    InitWith(Instances({0}, 1..MaxDraws),
             TypedDicts({"lambda_mst_sigma", "lambda_ifu_sigma"}, LensVals),
             TypedDicts({"a_ani", "sigma_v_sys_error"}, KinVals))

Next ==
    \/ HyperParamLikelihood
    \/ SharpPath
    \/ MonteCarloDraw
    \/ MonteCarloReturn
    \/ Return

Spec == Init /\ [][Next]_vars

\* lens_log_likelihood on a cosmology, the dicts possibly left at None
InitEntry ==
    InitWith(Instances({1}, 1..MaxDraws),
             {NoneType} \cup TypedDicts({"lambda_mst_sigma"}, LensVals),
             {NoneType} \cup TypedDicts({"sigma_v_sys_error"}, KinVals))

NextEntry ==
    \/ LensLogLikelihood
    \/ SharpPath
    \/ MonteCarloDraw
    \/ MonteCarloReturn
    \/ Return

SpecEntry == InitEntry /\ [][NextEntry]_vars


\* ------------------------------------------------------------------ claims
RECURSIVE SumOver(_, _)
SumOver(S, f) ==
    IF S = {} THEN 0
    ELSE LET v == CHOOSE x \in S : TRUE
         IN  f[v] + SumOver(S \ {v}, f)

\* how often the kernel was invoked in this call
KernelCalls == SumOver(KernelValues, hist)

\* the kernel results of this call
Seen == {v \in KernelValues : hist[v] > 0}

Absent(d, key) == key \notin DOMAIN d \/ d[key] = 0

AcceptedSum ==
    LET units == [v \in KernelValues |->
                     IF NpExp(v).kind = "fin" /\ NpExp(v).p > 0
                     THEN hist[v] * NpExp(v).p ELSE 0]
        total == SumOver(KernelValues, units)
    IN  IF total > MaxFinite THEN PosInf ELSE Lin(total)

\* C2: the Monte Carlo path returns log(S / N), S the sum of exp(logl) over
\* the draws whose exp(logl) is finite and strictly positive, N the
\* configured draw count, after exactly N kernel calls.
Thm_C2 ==
    pc = "done" /\ is_sharp = <<FALSE>> =>
        /\ KernelCalls = self.num_distribution_draws
        /\ result = NpLogDiv(AcceptedSum, self.num_distribution_draws)

Wit_C2 ==
    /\ pc = "done"
    /\ is_sharp = <<FALSE>>
    /\ self.num_distribution_draws = 2
    /\ hist[NaN] = 1
    /\ hist[Frac(1, 1)] = 1
    /\ result = Frac(1, 2)

\* C3: the Monte Carlo path returns negative infinity, without raising, when
\* every draw's kernel result is negative infinity or exponentiates to zero.
Thm_C3 ==
    (/\ pc \in {"done", "raised"}
     /\ is_sharp = <<FALSE>>
     /\ \A v \in Seen : v = NegInf \/ NpExp(v) = Lin(0))
    => pc = "done" /\ result = NegInf /\ error = "none"

Wit_C3 ==
    /\ pc = "done"
    /\ is_sharp = <<FALSE>>
    /\ hist[NegInf] = 1
    /\ hist[Frac(1, 2)] = 1
    /\ result = NegInf

\* a sharp-path call has returned, every spread of the two dicts being zero
SharpDone ==
    /\ pc = "done"
    /\ is_sharp = <<TRUE>>
    /\ Absent(kwargs_lens, "lambda_ifu_sigma")

\* the kernel result of a sharp-path call
SharpKernelValue == CHOOSE v \in KernelValues : hist[v] > 0

\* what the Monte Carlo path with one draw returns for the kernel result v
MonteCarloAtOnePoint(v) == MCReturn(Accumulate(Lin(0), v), 1)

\* C4 as stated: the sharp path returns what the Monte Carlo path with N = 1
\* returns for the same kernel result, whatever that result is.
Orig_C4 == SharpDone => result = MonteCarloAtOnePoint(SharpKernelValue)

\* C4 amended: the sharp path returns the kernel result itself; it agrees with
\* the Monte Carlo path with N = 1 exactly when the kernel result is negative
\* infinity or its exponential is finite, strictly positive and its logarithm
\* gives the kernel result back.
Thm_C4 ==
    SharpDone =>
        LET v == SharpKernelValue
        IN  /\ result = v
            /\ (result = MonteCarloAtOnePoint(v) <=>
                   \/ v = NegInf
                   \/ /\ IsFinite(NpExp(v))
                      /\ GreaterZero(NpExp(v))
                      /\ NpLogDiv(NpExp(v), 1) = v)

Wit_C4 ==
    /\ SharpDone
    /\ result = NaN
    /\ MonteCarloAtOnePoint(SharpKernelValue) = NegInf

\* the lens dict with the keys of alt replaced by alt's entries
Replaced(d, keys, alt) ==
    [k \in ((DOMAIN d) \ keys) \cup DOMAIN alt |->
        IF k \in DOMAIN alt THEN alt[k] ELSE d[k]]

TheDraw ==
    [lambda_mst_draw |-> lambda_mst_draw, kappa_ext_draw |-> kappa_ext_draw,
     gamma_ppn |-> gamma_ppn]

\* C5: the convergence draw is the PDF sample when a PDF is configured,
\* whatever kappa_ext, kappa_ext_sigma and kappa_ext_bias are; else, with
\* kappa_ext_bias, normal around kappa_ext with spread kappa_ext_sigma; else
\* 0 whatever kappa_ext and kappa_ext_sigma are.  gamma_ppn is returned as
\* given.
Thm_C5 ==
    pc = "drawn" =>
        LET kappa_keys == {"kappa_ext", "kappa_ext_sigma"}
            others == {draw_lens([self EXCEPT !.kappa_ext_bias = b],
                                 Replaced(kwargs_lens, kappa_keys, alt),
                                 rnd[1], rnd[2], rnd[3]).kappa_ext_draw :
                          b \in (IF self.draw_kappa THEN BOOLEAN
                                 ELSE {self.kappa_ext_bias}),
                          alt \in TypedDicts(kappa_keys, LensVals)}
        IN  /\ gamma_ppn = Get(kwargs_lens, "gamma_ppn", 1)
            /\ self.draw_kappa =>
                  kappa_ext_draw = rnd[3] /\ others = {rnd[3]}
            /\ ~self.draw_kappa /\ self.kappa_ext_bias =>
                  kappa_ext_draw = Get(kwargs_lens, "kappa_ext", 0)
                      + Get(kwargs_lens, "kappa_ext_sigma", 0) * rnd[2]
            /\ ~self.draw_kappa /\ ~self.kappa_ext_bias =>
                  kappa_ext_draw = 0 /\ others = {0}

Wit_C5 ==
    /\ pc = "drawn"
    /\ self.draw_kappa
    /\ self.kappa_ext_bias
    /\ Get(kwargs_lens, "kappa_ext_sigma", 0) = 1
    /\ rnd[2] = 1
    /\ kappa_ext_draw = rnd[3]

\* C6: with mst_ifu the draw is normal around lambda_ifu with spread
\* lambda_ifu_sigma, and replacing lambda_mst and lambda_mst_sigma leaves the
\* whole result unchanged for the same variates; without mst_ifu the same
\* holds with the two pairs of parameters exchanged.
Thm_C6 ==
    pc = "drawn" =>
        LET used == IF self.mst_ifu THEN {"lambda_ifu", "lambda_ifu_sigma"}
                    ELSE {"lambda_mst", "lambda_mst_sigma"}
            ignored == {"lambda_ifu", "lambda_ifu_sigma", "lambda_mst",
                        "lambda_mst_sigma"} \ used
            mean == IF self.mst_ifu THEN Get(kwargs_lens, "lambda_ifu", 1)
                    ELSE Get(kwargs_lens, "lambda_mst", 1)
            spread == IF self.mst_ifu
                      THEN Get(kwargs_lens, "lambda_ifu_sigma", 0)
                      ELSE Get(kwargs_lens, "lambda_mst_sigma", 0)
        IN  /\ lambda_mst_draw = mean + spread * rnd[1]
            /\ \A alt \in TypedDicts(ignored, LensVals) :
                  draw_lens(self, Replaced(kwargs_lens, ignored, alt),
                            rnd[1], rnd[2], rnd[3]) = TheDraw

Wit_C6 ==
    /\ pc = "drawn"
    /\ self.mst_ifu
    /\ Get(kwargs_lens, "lambda_mst_sigma", 0) = 1
    /\ Get(kwargs_lens, "lambda_ifu_sigma", 0) = 0
    /\ "lambda_mst" \in DOMAIN kwargs_lens
    /\ rnd[1] = 1
    /\ lambda_mst_draw = Get(kwargs_lens, "lambda_ifu", 1)

\* C7 as stated: a call leaves the caller's kinematic dict as it was, and
\* every kernel call after the first is given the override of the one before.
Orig_C7 ==
    [][/\ kwargs_kin' = kwargs_kin
       /\ kernel_override # <<>> => kernel_override' = kernel_override]_vars

\* C8 as stated: lens_log_likelihood, given two dicts and a cosmology whose
\* cross distance is zero or not finite, raises from the distance computation,
\* and no ddt reaches hyper_param_likelihood.
Orig_C8 ==
    (/\ entry = "lens_log_likelihood"
     /\ ~IsNone(kwargs_lens)
     /\ ~IsNone(kwargs_kin)
     /\ \/ cosmo.dds.kind \in {"nan", "pinf"}
        \/ cosmo.dds = Lin(0))
    => pc = "raised" /\ error = "ZeroDivisionError" /\ ddt = Unset

\* C9 as stated: a call on the sharp path invokes the kernel once, with the
\* mass-sheet factor at its configured mean and the convergence at its mean
\* or 0.
Orig_C9 ==
    pc = "done" /\ is_sharp = <<TRUE>> =>
        /\ KernelCalls = 1
        /\ lambda_mst_draw = (IF self.mst_ifu
                              THEN Get(kwargs_lens, "lambda_ifu", 1)
                              ELSE Get(kwargs_lens, "lambda_mst", 1))
        /\ kappa_ext_draw \in {0, Get(kwargs_lens, "kappa_ext", 0)}

\* C10 as stated: lens_log_likelihood with both dicts left at None, on a
\* cosmology whose cross distance is finite and positive, does not raise and
\* evaluates on the sharp path as with two empty dicts.
Orig_C10 ==
    (/\ entry = "lens_log_likelihood"
     /\ IsNone(kwargs_lens)
     /\ IsNone(kwargs_kin)
     /\ cosmo.dds.kind = "fin"
     /\ cosmo.dds.p > 0)
    => pc \in {"sharp", "done"} /\ error = "none"

====
